---- MODULE Spec2Model ----
(***************************************************************************)
(* Form-submission backend of YashStores (SnapShop): validation,           *)
(* deduplication by email, persistence, rate limiting and the admin gate.  *)
(*                                                                         *)
(* The repository holds three servers:                                     *)
(*   "file"  - src/unnamed/part_001, JSON files, no validation;            *)
(*   "store" - src/server.js lines 1-272, MongoDB, list routes open;       *)
(*   "admin" - src/server.js lines 274-657, MongoDB, admin gate, notifier. *)
(* The variable `variant` says which one runs; it never changes.           *)
(*                                                                         *)
(* Strings the code looks into (name, email, ...) are sequences of         *)
(* one-character strings; strings it only compares (type, style, budget,   *)
(* category, error texts) are TLA+ strings.                                *)
(***************************************************************************)
EXTENDS Integers, Sequences, FiniteSets, TLC

VARIABLES
    variant,         \* which server of the repository runs
    ADMIN_PASSWORD,  \* process.env.ADMIN_PASSWORD, Undef when not set
    transporter,     \* TRUE when GMAIL_USER and GMAIL_APP_PASSWORD made a transporter
    customers,       \* Customer collection / customers.json, insertion order
    merchants,       \* Merchant collection / merchants.json, insertion order
    nextId,          \* the ObjectId generator's counter
    now,             \* Date.now()
    pending,         \* submit handlers suspended at an await
    generalHits,     \* generalLimiter's store: client -> hits in its window
    submitHits,      \* submitLimiter's store: client -> hits in its window
    submitLog,       \* per client, how each submit of the submit window met the limiters
    mail,            \* the sendMail calls made, each with its state
    resp             \* the response sent last

vars == <<variant, ADMIN_PASSWORD, transporter, customers, merchants, nextId, now,
          pending, generalHits, submitHits, submitLog, mail, resp>>

config == <<variant, ADMIN_PASSWORD, transporter>>
limiters == <<generalHits, submitHits, submitLog>>
store == <<customers, merchants, nextId, now>>

-----------------------------------------------------------------------------
(* Bounds of the model *)

\* documents created or about to be created by a suspended submit handler
MaxCreated == 2
\* requests of one client per window in the specifications that do not study
\* the limiters
MaxHits == 2
\* submit requests of one client per submit window in SpecLimiter
MaxSubmits == 7

-----------------------------------------------------------------------------
(* Program constants *)

GENERAL_MAX == 100
SUBMIT_MAX == 5
MAX_LEN == 200

Clients == {"c1", "c2"}

-----------------------------------------------------------------------------
(* JSON values of a request body: a missing key, a string, or an array      *)
(* holding one string (v is what String(value) gives).                     *)

Undef == [t |-> "undef", v |-> <<>>]
Str(s) == [t |-> "str", v |-> s]
Arr(s) == [t |-> "arr", v |-> s]

\* !x of JavaScript for these values
Falsy(x) == x.t = "undef" \/ (x.t = "str" /\ x.v = <<>>)

Min(a, b) == IF a < b THEN a ELSE b

IsSpace(ch) == ch = " "

RECURSIVE TrimLeft(_)
TrimLeft(s) == IF s # <<>> /\ IsSpace(Head(s)) THEN TrimLeft(Tail(s)) ELSE s

RECURSIVE TrimRight(_)
TrimRight(s) ==
    IF s # <<>> /\ IsSpace(s[Len(s)]) THEN TrimRight(SubSeq(s, 1, Len(s) - 1)) ELSE s

Trim(s) == TrimRight(TrimLeft(s))

StripBrackets(s) == SelectSeq(s, LAMBDA ch : ch \notin {"<", ">"})

Slice(s, n) == SubSeq(s, 1, Min(n, Len(s)))

\* sanitizeString(str): the sanitized characters
sanitizeString(x) ==
    IF x.t # "str" THEN <<>>
    ELSE Slice(StripBrackets(Trim(x.v)), MAX_LEN)

LowerChar(ch) ==
    CASE ch = "A" -> "a"
      [] ch = "J" -> "j"
      [] ch = "Z" -> "z"
      [] OTHER -> ch

toLowerCase(s) == [i \in 1..Len(s) |-> LowerChar(s[i])]

\* /^[^\s@]+@[^\s@]+\.[^\s@]+$/ on the characters s
MatchesEmail(s) ==
    /\ \A i \in 1..Len(s) : ~IsSpace(s[i])
    /\ Cardinality({i \in 1..Len(s) : s[i] = "@"}) = 1
    /\ \E p \in 1..Len(s) :
          /\ s[p] = "@"
          /\ p > 1
          /\ \E q \in (p + 2)..(Len(s) - 1) : s[q] = "."

\* isValidEmail(email): RegExp.test turns its argument into a string
isValidEmail(x) == MatchesEmail(x.v)

VALID_STYLES ==
    IF variant = "store"
    THEN {"minimalist", "vintage", "streetwear", "formal", "casual"}
    ELSE {"minimalist", "vintage", "streetwear", "formal", "casual", "other"}
VALID_BUDGETS == {"0-100", "100-250", "250-500", "500+"}
VALID_CATEGORIES ==
    IF variant = "store"
    THEN {"clothing", "accessories", "footwear", "jewelry"}
    ELSE {"clothing", "accessories", "footwear", "jewelry", "other"}

\* Array.prototype.includes(value): strict equality with a string of the list
Includes(list, x) == x.t = "str" /\ x.v \in list

validateCustomer(data) ==
    (IF Falsy(data.name) \/ Len(sanitizeString(data.name)) < 1
        THEN <<"Name is required">> ELSE <<>>)
    \o (IF Falsy(data.email) \/ ~isValidEmail(data.email)
        THEN <<"Valid email is required">> ELSE <<>>)
    \o (IF ~Includes(VALID_STYLES, data.style)
        THEN <<"Invalid style selection">> ELSE <<>>)
    \o (IF ~Includes(VALID_BUDGETS, data.budget)
        THEN <<"Invalid budget selection">> ELSE <<>>)

validateMerchant(data) ==
    (IF Falsy(data.businessName) \/ Len(sanitizeString(data.businessName)) < 1
        THEN <<"Business name is required">> ELSE <<>>)
    \o (IF Falsy(data.contactName) \/ Len(sanitizeString(data.contactName)) < 1
        THEN <<"Contact name is required">> ELSE <<>>)
    \o (IF Falsy(data.email) \/ ~isValidEmail(data.email)
        THEN <<"Valid email is required">> ELSE <<>>)
    \o (IF ~Includes(VALID_CATEGORIES, data.category)
        THEN <<"Invalid category selection">> ELSE <<>>)

-----------------------------------------------------------------------------
(* Requests, documents and responses *)

\* data.key of JavaScript: undefined for a key the body does not have
Get(data, key) == IF key \in DOMAIN data THEN data[key] ELSE Undef

\* the view of a body the validators read
Fields(data) ==
    [name |-> Get(data, "name"), email |-> Get(data, "email"),
     style |-> Get(data, "style"), budget |-> Get(data, "budget"),
     businessName |-> Get(data, "businessName"),
     contactName |-> Get(data, "contactName"),
     category |-> Get(data, "category")]

NoId == <<>>

Response(op, status, details, id, data) ==
    [op |-> op, status |-> status, details |-> details, id |-> id, data |-> data]

\* the answer of a limiter that refuses a request
TooMany(op) == Response(op, 429, <<>>, NoId, <<>>)

Collection(kind) == IF kind = "customer" THEN customers ELSE merchants

Size(kind) == Len(Collection(kind))

Emails(coll) == {coll[i].email : i \in 1..Len(coll)}

\* a lookup that finds nothing
findOneMisses(kind, email) == FALSE

\* a lookup that searches both collections
findOneAnywhere(kind, email) == email \in Emails(customers) \cup Emails(merchants)

\* Model.findOne({ email }): some document of the collection with that email
findOne(kind, email) == email \in Emails(Collection(kind))

\* a limiter that refuses the request that reaches its bound
ExceedsEarly(hits, max) == hits >= max

\* rateLimit(): the request is refused when the client's hits exceed max
Exceeds(hits, max) == hits > max

\* a store with one counter for all clients
HitAll(hits, c) == [d \in DOMAIN hits |-> hits[d] + 1]

\* the store counts the request under the client's key
Hit(hits, c) == [hits EXCEPT ![c] = @ + 1]

\* a submit route that only submitLimiter guards
LimiterVerdictSubmitOnly(c) ==
    IF variant = "file" THEN "ok"
    ELSE IF Exceeds(submitHits[c] + 1, SUBMIT_MAX) THEN "submit"
    ELSE "ok"

\* which limiter stops a submit of client c, after generalLimiter and
\* submitLimiter counted it
LimiterVerdict(c) ==
    IF variant = "file" THEN "ok"
    ELSE IF Exceeds(generalHits[c] + 1, GENERAL_MAX) THEN "general"
    ELSE IF Exceeds(submitHits[c] + 1, SUBMIT_MAX) THEN "submit"
    ELSE "ok"

\* a route on which only generalLimiter stops a request
StopsGeneralOnly(verdict) == verdict = "general"

\* app.post('/api/submit', submitLimiter, handler): the handler runs only when
\* both limiters call next()
Stops(verdict) == verdict # "ok"

\* formData.type is 'customer' or 'merchant'
ValidType(data) == Includes({"customer", "merchant"}, Get(data, "type"))

Kind(data) == Get(data, "type").v

validate(data) ==
    IF Kind(data) = "customer" THEN validateCustomer(Fields(data))
    ELSE validateMerchant(Fields(data))

\* sanitizeString(formData.email).toLowerCase()
normalizedEmail(data) == toLowerCase(sanitizeString(Get(data, "email")))

\* the argument of Customer.create / Merchant.create
NewDocument(data) ==
    IF Kind(data) = "customer"
    THEN [name |-> sanitizeString(Get(data, "name")),
          email |-> normalizedEmail(data),
          style |-> Get(data, "style").v,
          budget |-> Get(data, "budget").v]
    ELSE [businessName |-> sanitizeString(Get(data, "businessName")),
          contactName |-> sanitizeString(Get(data, "contactName")),
          email |-> normalizedEmail(data),
          category |-> Get(data, "category").v]

\* the schema's `required: true`: Mongoose refuses an empty string
SchemaRejects(doc) ==
    \E k \in DOMAIN doc \ {"style", "budget", "category"} : doc[k] = <<>>

\* the stored document: _id and submittedAt (default: Date.now) are set by Mongoose
Stored(doc, id, time) ==
    [k \in DOMAIN doc \cup {"id", "submittedAt"} |->
        IF k = "id" THEN id ELSE IF k = "submittedAt" THEN time ELSE doc[k]]

-----------------------------------------------------------------------------
(* POST /api/submit of the MongoDB servers *)

\* a create call that writes every document to the Customer collection
Append2Customers(kind, rec) ==
    /\ customers' = Append(customers, rec)
    /\ merchants' = merchants

\* Customer.create(doc) / Merchant.create(doc): the document joins its collection
Append2(kind, rec) ==
    /\ customers' = IF kind = "customer" THEN Append(customers, rec) ELSE customers
    /\ merchants' = IF kind = "merchant" THEN Append(merchants, rec) ELSE merchants

\* sendNotificationEmail(type, data): the mail calls after it; nothing without a
\* transporter, and only the admin server has the notifier
sendNotificationEmail(kind, id) ==
    IF variant = "admin" /\ transporter
    THEN Append(mail, [kind |-> kind, id |-> id, state |-> "sending"])
    ELSE mail

\* a handler that looks for the duplicate before it validates
EarlyStatusDedupFirst(data) ==
    IF ~ValidType(data) THEN 400
    ELSE IF findOne(Kind(data), normalizedEmail(data)) THEN 409
    ELSE IF Len(validate(data)) > 0 THEN 400
    ELSE 0

\* what the handler answers before its first await resolves to "no duplicate":
\* 400 for a bad type or a validation failure, 409 for a duplicate, 0 to go on
EarlyStatus(data) ==
    IF ~ValidType(data) THEN 400
    ELSE IF Len(validate(data)) > 0 THEN 400
    ELSE IF findOne(Kind(data), normalizedEmail(data)) THEN 409
    ELSE 0

EarlyDetails(data) == IF ValidType(data) THEN validate(data) ELSE <<>>

\* The request passes generalLimiter and submitLimiter, then the handler runs
\* up to the answer of findOne.
SubmitBegin(c, data) ==
    /\ variant \in {"store", "admin"}
    /\ LET verdict == LimiterVerdict(c)
           early == EarlyStatus(data) IN
       /\ generalHits' = Hit(generalHits, c)
       /\ submitHits' = IF verdict = "general" THEN submitHits ELSE Hit(submitHits, c)
       /\ submitLog' = [submitLog EXCEPT ![c] = Append(@, verdict)]
       /\ IF Stops(verdict)
          THEN /\ resp' = TooMany("submit")
               /\ UNCHANGED pending
          ELSE IF early # 0
          THEN /\ resp' = Response("submit", early, EarlyDetails(data), NoId, <<>>)
               /\ UNCHANGED pending
          ELSE /\ pending' = Append(pending, data)
               /\ UNCHANGED resp
    /\ UNCHANGED <<config, mail, store>>

RemoveAt(seq, i) == SubSeq(seq, 1, i - 1) \o SubSeq(seq, i + 1, Len(seq))

\* Customer.create / Merchant.create of the suspended handler i, then its answer.
\* `tick` is the time that passed since the last document was created.
\* a create whose id is the number of documents of the collection plus one
SubmitCreateCounts(i, tick) ==
    /\ variant \in {"store", "admin"}
    /\ i \in 1..Len(pending)
    /\ LET data == pending[i]
           doc == NewDocument(data)
           id == Size(Kind(data)) + 1 IN
       IF SchemaRejects(doc)
       THEN /\ resp' = Response("submit", 500, <<>>, NoId, <<>>)
            /\ UNCHANGED <<store, mail>>
       ELSE /\ nextId' = nextId + 1
            /\ now' = now + tick
            /\ Append2(Kind(data), Stored(doc, id, now + tick))
            /\ mail' = sendNotificationEmail(Kind(data), id)
            /\ resp' = Response("submit", 201, <<>>, <<id>>, <<>>)
    /\ pending' = RemoveAt(pending, i)
    /\ UNCHANGED <<config, limiters>>

SubmitCreate(i, tick) ==
    /\ variant \in {"store", "admin"}
    /\ i \in 1..Len(pending)
    /\ LET data == pending[i]
           doc == NewDocument(data) IN
       IF SchemaRejects(doc)
       THEN /\ resp' = Response("submit", 500, <<>>, NoId, <<>>)
            /\ UNCHANGED <<store, mail>>
       ELSE /\ nextId' = nextId + 1
            /\ now' = now + tick
            /\ Append2(Kind(data), Stored(doc, nextId + 1, now + tick))
            /\ mail' = sendNotificationEmail(Kind(data), nextId + 1)
            /\ resp' = Response("submit", 201, <<>>, <<nextId + 1>>, <<>>)
    /\ pending' = RemoveAt(pending, i)
    /\ UNCHANGED <<config, limiters>>

\* findOne or create rejects (the database is unreachable, ...): the catch of
\* the handler answers 500
SubmitCreateFails(i) ==
    /\ variant \in {"store", "admin"}
    /\ i \in 1..Len(pending)
    /\ resp' = Response("submit", 500, <<>>, NoId, <<>>)
    /\ pending' = RemoveAt(pending, i)
    /\ UNCHANGED <<config, store, mail, limiters>>

\* transporter.sendMail resolves: a log line
MailSent(i) ==
    /\ i \in 1..Len(mail)
    /\ mail[i].state = "sending"
    /\ mail' = [mail EXCEPT ![i].state = "sent"]
    /\ UNCHANGED <<config, store, pending, limiters, resp>>

\* a notifier whose failure reaches the client as an error
MailFailsLoudly(i) ==
    /\ i \in 1..Len(mail)
    /\ mail[i].state = "sending"
    /\ mail' = [mail EXCEPT ![i].state = "failed"]
    /\ resp' = Response("submit", 500, <<>>, NoId, <<>>)
    /\ UNCHANGED <<config, store, pending, limiters>>

\* transporter.sendMail rejects: the catch of sendNotificationEmail logs it
MailFailed(i) ==
    /\ i \in 1..Len(mail)
    /\ mail[i].state = "sending"
    /\ mail' = [mail EXCEPT ![i].state = "failed"]
    /\ UNCHANGED <<config, store, pending, limiters, resp>>

\* the window of a limiter ends for client c
WindowReset(limiter, c) ==
    /\ variant \in {"store", "admin"}
    /\ IF limiter = "general"
       THEN /\ generalHits[c] > 0
            /\ generalHits' = [generalHits EXCEPT ![c] = 0]
            /\ UNCHANGED <<submitHits, submitLog>>
       ELSE /\ submitHits[c] > 0
            /\ submitHits' = [submitHits EXCEPT ![c] = 0]
            /\ submitLog' = [submitLog EXCEPT ![c] = <<>>]
            /\ UNCHANGED generalHits
    /\ UNCHANGED <<config, mail, store, pending, resp>>

-----------------------------------------------------------------------------
(* The CORS boundary, in front of the limiters and of every route *)

ALLOWED_ORIGINS ==
    {"https://ymagarwal.github.io", "http://localhost:3000",
     "http://localhost:5500", "http://127.0.0.1:5500"}

\* the origin callback of cors({ origin }) of the MongoDB servers lets a request
\* without Origin or with a listed Origin through; cors() of the file server
\* lets every request through
corsAllows(origin) ==
    \/ variant = "file"
    \/ origin.t = "undef"
    \/ Includes(ALLOWED_ORIGINS, origin)

\* callback(new Error('Not allowed by CORS')) and the global error handler
Forbidden ==
    /\ resp' = Response("cors", 403, <<>>, NoId, <<>>)
    /\ UNCHANGED <<config, mail, store, pending, limiters>>

\* a request with this Origin header whose route does `handled`
Arrives(origin, handled) == IF corsAllows(origin) THEN handled ELSE Forbidden

-----------------------------------------------------------------------------
(* The routes behind generalLimiter: admin login, lists, deletes, health *)

\* generalLimiter refuses the request (it has counted it already)
GeneralRefuses(c) == Exceeds(generalHits[c] + 1, GENERAL_MAX)

\* String.prototype.replace('Bearer ', ''): the first occurrence goes.
\* A header is a sequence of lexical pieces, "Bearer " being one piece.
RECURSIVE ReplaceBearer(_)
ReplaceBearer(s) ==
    IF s = <<>> THEN <<>>
    ELSE IF Head(s) = "Bearer " THEN Tail(s)
    ELSE <<Head(s)>> \o ReplaceBearer(Tail(s))

\* req.headers.authorization?.replace('Bearer ', '')
Token(auth) == IF auth.t = "undef" THEN Undef ELSE Str(ReplaceBearer(auth.v))

\* a gate that only compares the token with the secret
requireAdminCompares(auth) == Token(auth) = ADMIN_PASSWORD

\* requireAdmin lets the request through
requireAdmin(auth) == ~Falsy(ADMIN_PASSWORD) /\ Token(auth) = ADMIN_PASSWORD

\* the list routes of the first server and of the file server have no gate
Gated == variant = "admin"

\* a login that accepts every password that is sent
AdminLoginAny(c, password) ==
    /\ variant = "admin"
    /\ generalHits' = Hit(generalHits, c)
    /\ resp' = IF GeneralRefuses(c) THEN TooMany("login")
               ELSE IF Falsy(password)
               THEN Response("login", 401, <<>>, NoId, <<>>)
               ELSE Response("login", 200, <<>>, NoId, <<>>)
    /\ UNCHANGED <<config, mail, store, pending, submitHits, submitLog>>

\* POST /api/admin/login
AdminLogin(c, password) ==
    /\ variant = "admin"
    /\ generalHits' = Hit(generalHits, c)
    /\ resp' = IF GeneralRefuses(c) THEN TooMany("login")
               ELSE IF Falsy(ADMIN_PASSWORD) \/ password # ADMIN_PASSWORD
               THEN Response("login", 401, <<>>, NoId, <<>>)
               ELSE Response("login", 200, <<>>, NoId, <<>>)
    /\ UNCHANGED <<config, mail, store, pending, submitHits, submitLog>>

\* the orders find().sort({ submittedAt: -1 }) may return: newest first, documents
\* of equal submittedAt in any order
SortedNewestFirst(coll) ==
    {[i \in 1..Len(coll) |-> coll[p[i]]] :
        p \in {q \in [1..Len(coll) -> 1..Len(coll)] :
                 /\ \A i, j \in 1..Len(coll) : i # j => q[i] # q[j]
                 /\ \A i, j \in 1..Len(coll) :
                       i < j => coll[q[i]].submittedAt >= coll[q[j]].submittedAt}}

\* GET /api/customers, GET /api/merchants of the MongoDB servers
List(c, kind, auth) ==
    /\ variant \in {"store", "admin"}
    /\ generalHits' = Hit(generalHits, c)
    /\ IF GeneralRefuses(c) THEN resp' = TooMany("list")
       ELSE IF Gated /\ ~requireAdmin(auth)
       THEN resp' = Response("list", 401, <<>>, NoId, <<>>)
       ELSE \E data \in SortedNewestFirst(Collection(kind)) :
               resp' = Response("list", 200, <<>>, NoId, data)
    /\ UNCHANGED <<config, mail, store, pending, submitHits, submitLog>>

\* the :id of a delete request: a string Mongoose can cast to an ObjectId (oid
\* is the ObjectId) or one it cannot
IdParams ==
    {[wellFormed |-> TRUE, oid |-> n] : n \in 1..(MaxCreated + 1)}
    \cup {[wellFormed |-> FALSE, oid |-> 0]}

\* a delete that removes the oldest document, whatever the id
WithoutOldest(coll, oid) == Tail(coll)

Without(coll, oid) == SelectSeq(coll, LAMBDA d : d.id # oid)

HasId(coll, oid) == \E i \in 1..Len(coll) : coll[i].id = oid

\* what Model.findByIdAndDelete(req.params.id) makes the route answer
DeleteStatus(kind, id) ==
    IF ~id.wellFormed THEN 500
    ELSE IF ~HasId(Collection(kind), id.oid) THEN 404
    ELSE 200

\* DELETE /api/customers/:id, DELETE /api/merchants/:id
Delete(c, kind, auth, id) ==
    /\ variant = "admin"
    /\ generalHits' = Hit(generalHits, c)
    /\ IF GeneralRefuses(c)
       THEN resp' = TooMany("delete") /\ UNCHANGED <<customers, merchants>>
       ELSE IF ~requireAdmin(auth)
       THEN /\ resp' = Response("delete", 401, <<>>, NoId, <<>>)
            /\ UNCHANGED <<customers, merchants>>
       ELSE /\ resp' = Response("delete", DeleteStatus(kind, id), <<>>, NoId, <<>>)
            /\ customers' = IF kind = "customer" /\ DeleteStatus(kind, id) = 200
                            THEN Without(customers, id.oid) ELSE customers
            /\ merchants' = IF kind = "merchant" /\ DeleteStatus(kind, id) = 200
                            THEN Without(merchants, id.oid) ELSE merchants
    /\ UNCHANGED <<config, mail, nextId, now, pending, submitHits, submitLog>>

\* GET /api/health
Health(c) ==
    /\ variant \in {"store", "admin"}
    /\ generalHits' = Hit(generalHits, c)
    /\ resp' = IF GeneralRefuses(c) THEN TooMany("health")
               ELSE Response("health", 200, <<>>, NoId, <<>>)
    /\ UNCHANGED <<config, mail, store, pending, submitHits, submitLog>>

-----------------------------------------------------------------------------
(* The file server (src/unnamed/part_001): no limiter, no validation, no gate *)

DigitChars == <<"0", "1", "2", "3", "4", "5", "6", "7", "8", "9">>

\* Date.now().toString(), for the clock values of the model
NowString(n) == <<DigitChars[n + 1]>>

\* readData(filename) answers; the handler is suspended until writeData
FileSubmitRead(data) ==
    /\ variant = "file"
    /\ IF ~ValidType(data)
       THEN /\ resp' = Response("submit", 400, <<>>, NoId, <<>>)
            /\ UNCHANGED pending
       ELSE /\ pending' = Append(pending,
                  [formData |-> data, existingData |-> Collection(Kind(data))])
            /\ UNCHANGED resp
    /\ UNCHANGED <<config, mail, store, limiters>>

\* readData(filename) fails to read or to parse the file: its catch logs and
\* returns []. The entry records that the read failed.
FileSubmitReadFails(data) ==
    /\ variant = "file"
    /\ ValidType(data)
    /\ pending' = Append(pending,
           [formData |-> data, existingData |-> <<>>, readFailed |-> TRUE])
    /\ UNCHANGED <<config, mail, store, limiters, resp>>

\* { id: Date.now().toString(), ...formData, submittedAt: new Date().toISOString() }
newSubmission(data, time) ==
    [k \in {"id", "submittedAt"} \cup DOMAIN data |->
        IF k = "submittedAt" THEN time
        ELSE IF k \in DOMAIN data THEN data[k]
        ELSE Str(NowString(time))]

\* existingData.push(newSubmission), writeData(filename, existingData), the answer
FileSubmitWrite(i, tick) ==
    /\ variant = "file"
    /\ i \in 1..Len(pending)
    /\ LET data == pending[i].formData
           rec == newSubmission(data, now + tick)
           file == Append(pending[i].existingData, rec) IN
       /\ now' = now + tick
       /\ customers' = IF Kind(data) = "customer" THEN file ELSE customers
       /\ merchants' = IF Kind(data) = "merchant" THEN file ELSE merchants
       /\ resp' = Response("submit", 200, <<>>, <<rec.id>>, <<>>)
    /\ pending' = RemoveAt(pending, i)
    /\ UNCHANGED <<config, mail, nextId, limiters>>

\* writeData(filename, existingData) fails: its catch returns false and the
\* handler answers 500 'Failed to save data'
FileSubmitWriteFails(i) ==
    /\ variant = "file"
    /\ i \in 1..Len(pending)
    /\ resp' = Response("submit", 500, <<>>, NoId, <<>>)
    /\ pending' = RemoveAt(pending, i)
    /\ UNCHANGED <<config, mail, store, limiters>>

\* GET /api/customers, GET /api/merchants of the file server: the file as it is
FileList(kind) ==
    /\ variant = "file"
    /\ resp' = Response("list", 200, <<>>, NoId, Collection(kind))
    /\ UNCHANGED <<config, mail, store, pending, limiters>>

-----
(* Request bodies of the model *)

E_A == <<"A", "@", "b", ".", "c">>
E_a == <<"a", "@", "b", ".", "c">>
E_z == <<"z", "@", "b", ".", "c">>
E_bad == <<"a", "b">>
N_Jo == <<" ", "J", "<">>
N_br == <<"<", ">">>

\* a body without the keys whose value is missing
Compact(rec) == [k \in {k \in DOMAIN rec : rec[k].t # "undef"} |-> rec[k]]

GoodCustomer ==
    [type |-> Str("customer"), name |-> Str(N_Jo), email |-> Str(E_a),
     style |-> Str("formal"), budget |-> Str("0-100")]

BadCustomer ==
    [type |-> Str("customer"), name |-> Undef, email |-> Str(E_bad),
     style |-> Str("punk"), budget |-> Undef]

\* valid bodies, bodies with one bad field, and a body with every field bad
CustomerBodies ==
    {Compact(b) : b \in
        {[GoodCustomer EXCEPT !.email = e] : e \in {Str(E_A), Str(E_a), Str(E_z), Arr(E_a)}}
        \cup {[GoodCustomer EXCEPT !.name = Str(N_br)],
              [GoodCustomer EXCEPT !.email = Str(E_bad)],
              [GoodCustomer EXCEPT !.style = Str("punk")],
              [GoodCustomer EXCEPT !.style = Undef],
              [GoodCustomer EXCEPT !.budget = Str("1000")],
              [GoodCustomer EXCEPT !.budget = Undef],
              BadCustomer}}

GoodMerchant ==
    [type |-> Str("merchant"), businessName |-> Str(N_Jo), contactName |-> Str(N_Jo),
     email |-> Str(E_a), category |-> Str("clothing")]

MerchantBodies ==
    {Compact(b) : b \in
        {GoodMerchant,
         [GoodMerchant EXCEPT !.email = Str(E_A)],
         [GoodMerchant EXCEPT !.contactName = Str(N_br)],
         [GoodMerchant EXCEPT !.category = Str("toys")],
         [GoodMerchant EXCEPT !.category = Undef]}}

OtherBodies == {Compact([GoodCustomer EXCEPT !.type = Str("admin")]),
                Compact([GoodCustomer EXCEPT !.type = Undef])}

Bodies == CustomerBodies \cup MerchantBodies \cup OtherBodies

\* keys a client may add to a body: the names of the fields the server sets, and
\* a key no record kind declares
ExtraKeys ==
    [id |-> Str(<<"7">>), submittedAt |-> Str(<<"9">>), role |-> Str(<<"a">>)]

WithExtras(body) == body @@ ExtraKeys

-----------------------------------------------------------------------------
(* The admin server (src/server.js, second half) with its admin secret and  *)
(* its mail transporter configured                                         *)

NoResponse == Response("none", 0, <<>>, NoId, <<>>)

InitCommon ==
    /\ customers = <<>>
    /\ merchants = <<>>
    /\ nextId = 0
    /\ now = 0
    /\ pending = <<>>
    /\ generalHits = [c \in Clients |-> 0]
    /\ submitHits = [c \in Clients |-> 0]
    /\ submitLog = [c \in Clients |-> <<>>]
    /\ mail = <<>>
    /\ resp = NoResponse

Init ==
    /\ variant = "admin"
    /\ ADMIN_PASSWORD = Str(<<"pw">>)
    /\ transporter = TRUE
    /\ InitCommon

\* client c may send one more request in the specifications that do not study
\* the limiters
Quiet(c) == generalHits[c] < MaxHits /\ submitHits[c] < MaxHits

\* one more document may be created or be on its way
Room == nextId + Len(pending) < MaxCreated

\* the handler of this body gets as far as its create call
Suspends(data) == ValidType(data) /\ (variant = "file" \/ EarlyStatus(data) = 0)

AuthHeaders ==
    {Undef, Str(<<"Bearer ", "pw">>), Str(<<"pw">>), Str(<<"Bearer ", "bad">>),
     Str(<<"Bearer ", "Bearer ", "pw">>)}

\* the delete requests of the model: every id with the headers that carry the
\* secret, one existing or unknown id with the others
DeleteInputs ==
    {in \in AuthHeaders \X IdParams :
        in[1] \in {Str(<<"Bearer ", "pw">>), Str(<<"pw">>)} \/ in[2].oid = 1}

Passwords == {Undef, Str(<<"pw">>), Str(<<"bad">>), Arr(<<"pw">>)}

Kinds == {"customer", "merchant"}

Next ==
    \/ \E data \in Bodies :
          Quiet("c1") /\ (Suspends(data) => Room) /\ SubmitBegin("c1", data)
    \/ \E i \in 1..MaxCreated : SubmitCreate(i, 1)
    \/ \E limiter \in {"general", "submit"} : WindowReset(limiter, "c1")
    \/ \E password \in Passwords : Quiet("c1") /\ AdminLogin("c1", password)
    \/ \E kind \in Kinds, auth \in AuthHeaders : Quiet("c1") /\ List("c1", kind, auth)
    \/ \E kind \in Kinds, in \in DeleteInputs :
          Quiet("c1") /\ Delete("c1", kind, in[1], in[2])
    \/ Quiet("c1") /\ Health("c1")

Spec == Init /\ [][Next]_vars

-----------------------------------------------------------------------------
(* The first MongoDB server (src/server.js, first half): no admin secret, no *)
(* notifier, no delete route                                                *)

InitStore ==
    /\ variant = "store"
    /\ ADMIN_PASSWORD = Undef
    /\ transporter = FALSE
    /\ InitCommon

NextStore ==
    \/ \E data \in Bodies :
          Quiet("c1") /\ (Suspends(data) => Room) /\ SubmitBegin("c1", data)
    \/ \E i \in 1..MaxCreated : SubmitCreate(i, 1)
    \/ \E limiter \in {"general", "submit"} : WindowReset(limiter, "c1")
    \/ \E kind \in Kinds, auth \in AuthHeaders : Quiet("c1") /\ List("c1", kind, auth)
    \/ Quiet("c1") /\ Health("c1")

SpecStore == InitStore /\ [][NextStore]_vars

-----------------------------------------------------------------------------
(* The file server (src/unnamed/part_001) *)

InitFile ==
    /\ variant = "file"
    /\ ADMIN_PASSWORD = Undef
    /\ transporter = FALSE
    /\ InitCommon

\* the file of this body's kind may grow by one more record
FileRoom(data) == ValidType(data) => Size(Kind(data)) + Len(pending) < MaxCreated

\* the clock of the model stops at MaxClock
MaxClock == MaxCreated

FileBodies ==
    {Compact(b) : b \in
        {GoodCustomer, [GoodCustomer EXCEPT !.style = Str("punk")],
         [GoodCustomer EXCEPT !.budget = Undef], GoodMerchant,
         [GoodMerchant EXCEPT !.category = Str("toys")],
         [GoodCustomer EXCEPT !.type = Str("admin")],
         WithExtras(GoodCustomer)}}

\* the Origin headers of the model: none, a listed one, one that is not listed
Origins == {Undef, Str("http://localhost:3000"), Str("https://evil.example")}

NextFile ==
    \/ \E data \in FileBodies, origin \in Origins :
          FileRoom(data) /\ Arrives(origin, FileSubmitRead(data))
    \/ \E data \in FileBodies, origin \in Origins :
          FileRoom(data) /\ Arrives(origin, FileSubmitReadFails(data))
    \/ \E i \in 1..MaxCreated : FileSubmitWriteFails(i)
    \/ \E i \in 1..MaxCreated, tick \in {0, 1} :
          now + tick <= MaxClock /\ FileSubmitWrite(i, tick)
    \/ \E kind \in Kinds, origin \in Origins : Arrives(origin, FileList(kind))

SpecFile == InitFile /\ [][NextFile]_vars

-----
(* The same server with one client that may use up its limiters *)

LimiterBodies == {Compact(GoodCustomer), Compact(BadCustomer)}

\* the hits a limiter counts in the model: its bound and two refusals
HitsCap(max) == max + 2

NextLimiter ==
    \/ \E data \in LimiterBodies :
          /\ Len(submitLog["c1"]) < MaxSubmits
          /\ generalHits["c1"] < HitsCap(GENERAL_MAX)
          /\ Suspends(data) => Room
          /\ SubmitBegin("c1", data)
    \/ SubmitCreate(1, 1)
    \/ generalHits["c1"] < HitsCap(GENERAL_MAX) /\ Health("c1")
    \/ \E limiter \in {"general", "submit"} : WindowReset(limiter, "c1")

SpecLimiter == Init /\ [][NextLimiter]_vars

-----------------------------------------------------------------------------
(* The admin server with or without a mail transporter, and the outcomes of  *)
(* its sendMail calls; a call that never completes stays "sending"          *)

InitMail ==
    /\ variant = "admin"
    /\ ADMIN_PASSWORD = Str(<<"pw">>)
    /\ transporter \in BOOLEAN
    /\ InitCommon

MailBodies ==
    {Compact(b) : b \in {GoodCustomer, [GoodCustomer EXCEPT !.email = Str(E_z)],
                         GoodMerchant, BadCustomer}}

NextMail ==
    \/ \E data \in MailBodies :
          Quiet("c1") /\ (Suspends(data) => Room) /\ SubmitBegin("c1", data)
    \/ \E i \in 1..MaxCreated : SubmitCreate(i, 1)
    \/ \E i \in 1..MaxCreated : MailSent(i)
    \/ \E i \in 1..MaxCreated : MailFailed(i)
    \/ \E limiter \in {"general", "submit"} : WindowReset(limiter, "c1")

SpecMail == InitMail /\ [][NextMail]_vars

-----------------------------------------------------------------------------
(* The admin server with bodies whose strings sanitizeString changes *)

E_br == <<"<", "@", "b", ".", "c">>
N_lead == <<"<", " ", "J">>
\* MAX_LEN + 1 characters, the one at MAX_LEN a space
N_long == [i \in 1..(MAX_LEN + 1) |-> IF i = MAX_LEN THEN " " ELSE "J"]

FieldBodies ==
    {Compact(b) : b \in
        {GoodCustomer, [GoodCustomer EXCEPT !.email = Str(E_A)],
         [GoodCustomer EXCEPT !.email = Str(E_br)],
         [GoodCustomer EXCEPT !.name = Str(N_lead), !.email = Str(E_z)],
         [GoodCustomer EXCEPT !.name = Str(N_long), !.email = Str(E_z)],
         [GoodCustomer EXCEPT !.name = Str(N_br)],
         WithExtras(GoodCustomer),
         GoodMerchant, [GoodMerchant EXCEPT !.contactName = Str(N_lead)]}}

NextFields ==
    \/ \E data \in FieldBodies :
          Quiet("c1") /\ (Suspends(data) => Room) /\ SubmitBegin("c1", data)
    \/ \E i \in 1..MaxCreated : SubmitCreate(i, 1)
    \/ \E i \in 1..MaxCreated : SubmitCreateFails(i)
    \/ \E kind \in Kinds : Quiet("c1") /\ List("c1", kind, Str(<<"Bearer ", "pw">>))
    \/ \E limiter \in {"general", "submit"} : WindowReset(limiter, "c1")

SpecFields == Init /\ [][NextFields]_vars

-----------------------------------------------------------------------------
(* The admin server with requests of every origin *)

NextOrigin ==
    \/ \E data \in LimiterBodies, origin \in Origins :
          Quiet("c1") /\ (Suspends(data) => Room)
          /\ Arrives(origin, SubmitBegin("c1", data))
    \/ \E i \in 1..MaxCreated : SubmitCreate(i, 1)
    \/ \E kind \in Kinds, origin \in Origins :
          Quiet("c1") /\ Arrives(origin, List("c1", kind, Str(<<"Bearer ", "pw">>)))
    \/ \E kind \in Kinds, id \in IdParams, origin \in Origins :
          Quiet("c1") /\ Arrives(origin, Delete("c1", kind, Str(<<"Bearer ", "pw">>), id))
    \/ \E limiter \in {"general", "submit"} : WindowReset(limiter, "c1")

SpecOrigin == Init /\ [][NextOrigin]_vars

-----------------------------------------------------------------------------
(* The admin server with two clients that submit, and their windows *)

NextClients ==
    \/ \E c \in Clients :
          /\ Len(submitLog[c]) < MaxSubmits
          /\ generalHits[c] < MaxSubmits
          /\ SubmitBegin(c, Compact(BadCustomer))
    \/ \E c \in Clients, limiter \in {"general", "submit"} : WindowReset(limiter, c)

SpecClients == Init /\ [][NextClients]_vars

-----------------------------------------------------------------------------
(* The admin server with one client whose submits end in every way: refused  *)
(* by a limiter, invalid, duplicate, failed at the store, created           *)

StageBodies ==
    {Compact(b) : b \in
        {GoodCustomer, GoodMerchant,
         [GoodCustomer EXCEPT !.style = Str("punk")],
         [GoodCustomer EXCEPT !.email = Arr(E_a)],
         [GoodCustomer EXCEPT !.type = Str("admin")]}}

NextStages ==
    \/ \E data \in StageBodies :
          /\ Len(submitLog["c1"]) < MaxSubmits
          /\ generalHits["c1"] < MaxSubmits
          /\ Suspends(data) => Room
          /\ SubmitBegin("c1", data)
    \/ \E i \in 1..MaxCreated : SubmitCreate(i, 1)
    \/ \E i \in 1..MaxCreated : SubmitCreateFails(i)
    \/ \E i \in 1..MaxCreated : MailSent(i)
    \/ \E limiter \in {"general", "submit"} : WindowReset(limiter, "c1")

SpecStages == Init /\ [][NextStages]_vars

-----------------------------------------------------------------------------
(* The admin server started without an admin secret: process.env.ADMIN_PASSWORD *)
(* is undefined or the empty string                                          *)

InitNoSecret ==
    /\ variant = "admin"
    /\ ADMIN_PASSWORD \in {Undef, Str(<<>>)}
    /\ transporter = FALSE
    /\ InitCommon

\* Authorization headers, with the empty header and the header "Bearer "
GateHeaders == AuthHeaders \cup {Str(<<>>), Str(<<"Bearer ">>)}

\* passwords of a login body, with the empty string
GatePasswords == Passwords \cup {Str(<<>>)}

NextNoSecret ==
    \/ \E data \in {Compact(GoodCustomer), Compact(GoodMerchant)} :
          Quiet("c1") /\ (Suspends(data) => Room) /\ SubmitBegin("c1", data)
    \/ \E i \in 1..MaxCreated : SubmitCreate(i, 1)
    \/ \E limiter \in {"general", "submit"} : WindowReset(limiter, "c1")
    \/ \E password \in GatePasswords : Quiet("c1") /\ AdminLogin("c1", password)
    \/ \E kind \in Kinds, auth \in GateHeaders : Quiet("c1") /\ List("c1", kind, auth)
    \/ \E kind \in Kinds, auth \in GateHeaders, id \in IdParams :
          Quiet("c1") /\ Delete("c1", kind, auth, id)

SpecNoSecret == InitNoSecret /\ [][NextNoSecret]_vars

-----------------------------------------------------------------------------
(* The admin server with customers of one email that are submitted, deleted  *)
(* by the admin and submitted again                                          *)

ResubmitBodies ==
    {Compact(GoodCustomer), Compact([GoodCustomer EXCEPT !.email = Str(E_A)])}

NextResubmit ==
    \/ \E data \in ResubmitBodies :
          Quiet("c1") /\ (Suspends(data) => Room) /\ SubmitBegin("c1", data)
    \/ \E i \in 1..MaxCreated : SubmitCreate(i, 1)
    \/ \E limiter \in {"general", "submit"} : WindowReset(limiter, "c1")
    \/ \E id \in IdParams :
          Quiet("c1") /\ Delete("c1", "customer", Str(<<"Bearer ", "pw">>), id)

SpecResubmit == Init /\ [][NextResubmit]_vars

-----------------------------------------------------------------------------
(* Vocabulary of the properties *)

\* the payloads of the model that the data model calls valid: every field a
\* string, name(s) non-empty once sanitized, email of the form local@domain.tld,
\* enumerated fields in their sets
ValidBodies ==
    {Compact(b) : b \in
        {[GoodCustomer EXCEPT !.email = e] : e \in {Str(E_A), Str(E_a), Str(E_z)}}
        \cup {GoodMerchant, [GoodMerchant EXCEPT !.email = Str(E_A)]}}

\* the lower-cased email of a valid payload
LowerEmail == [b \in ValidBodies |-> IF b.email.v = E_z THEN E_z ELSE E_a]

KindOf == [b \in ValidBodies |-> b.type.v]

\* the collection after the step
After(kind) == IF kind = "customer" THEN customers' ELSE merchants'

WithEmail(coll, email) == {i \in 1..Len(coll) : coll[i].email = email}

Holds(kind, email) == WithEmail(Collection(kind), email) # {}

-----------------------------------------------------------------------------
(* C1: two submits with the same normalized email, one after the other *)

\* C1, first request: a valid payload with a new email, submitted while
\* no other submit is in flight and no limiter is near its bound, gets as far as its create call,
\* which answers 201 and adds exactly one document, holding that email, to its
\* collection only.
C1_First ==
    \A data \in ValidBodies :
        /\ (/\ pending = <<>>
            /\ ~Holds(KindOf[data], LowerEmail[data])
            /\ Quiet("c1")
            /\ SubmitBegin("c1", data))
           => pending' = <<data>>
        /\ (/\ pending = <<data>>
            /\ ~Holds(KindOf[data], LowerEmail[data])
            /\ SubmitCreate(1, 1))
           => /\ resp'.op = "submit" /\ resp'.status = 201
              /\ \A kind \in Kinds :
                    Len(After(kind)) = Size(kind) + (IF kind = KindOf[data] THEN 1 ELSE 0)
              /\ Cardinality(WithEmail(After(KindOf[data]), LowerEmail[data])) = 1

\* C1, second request: a valid payload whose normalized email a document of the
\* collection holds is answered 409 and nothing is written.
C1_Second ==
    \A data \in ValidBodies :
        (/\ Holds(KindOf[data], LowerEmail[data])
         /\ Quiet("c1")
         /\ SubmitBegin("c1", data))
        => /\ resp'.op = "submit" /\ resp'.status = 409
           /\ UNCHANGED <<customers, merchants, pending>>

\* C1: submitting the same normalized email twice in a row to one collection
\* gives 201 then 409, and the collection grows by exactly one.
C1_SameEmailTwice == [][C1_First /\ C1_Second]_vars

\* C1 witness: one document was ever created, and the submit answered last met
\* it as a duplicate
C1_Witness ==
    /\ resp.op = "submit" /\ resp.status = 409
    /\ nextId = 1 /\ pending = <<>> /\ Len(customers) = 1

-----------------------------------------------------------------------------
(* C2: email uniqueness within a collection under every interleaving *)

\* C2: no two documents of one collection hold the same email.
C2_UniqueEmails ==
    \A kind \in Kinds :
        \A i, j \in 1..Size(kind) :
            i # j => Collection(kind)[i].email # Collection(kind)[j].email

-----------------------------------------------------------------------------
(* C3: six submits of one client inside one window of the submit limiter *)

Log(c) == submitLog[c]

WithinLooseBound(c) == \A i \in 1..Len(Log(c)) : Log(c)[i] # "general"

-----------------------------------------------------------------------------
(* C4: a submit refused by a limiter has no side effect *)

\* C4: a submit that a limiter refuses is answered 429 and creates no document,
\* changes no collection, suspends no handler (so no create call follows) and
\* makes no sendMail call, also when its body is valid and its email is new.
C4_RefusedSubmit ==
    \A data \in LimiterBodies :
        (/\ LimiterVerdict("c1") # "ok"
         /\ SubmitBegin("c1", data))
        => /\ resp' = TooMany("submit")
           /\ UNCHANGED <<customers, merchants, nextId, pending, mail>>

C4_RefusedSubmitNoEffect == [][C4_RefusedSubmit]_vars

\* C4 witness: a submit was refused while the customer collection was empty,
\* so the valid body among the refused ones had a new email
C4_Witness ==
    /\ resp = TooMany("submit")
    /\ Len(Log("c1")) > 0 /\ Log("c1")[Len(Log("c1"))] = "submit"
    /\ customers = <<>> /\ pending = <<>>

-----------------------------------------------------------------------------
(* C5: the admin-only routes without the admin secret *)

\* the headers of the model whose credential is absent or is not the secret
BadCredentials == {Undef, Str(<<"Bearer ", "bad">>), Str(<<"Bearer ", "Bearer ", "pw">>)}

GoodCredentials == AuthHeaders \ BadCredentials

Refusal(op) == Response(op, 401, <<>>, NoId, <<>>)

\* C5: a list or a delete with an absent or wrong credential is answered 401
\* without record data, and both collections stay as they are.
C5_Unauthorized ==
    \A kind \in Kinds, auth \in BadCredentials :
        /\ (Quiet("c1") /\ List("c1", kind, auth))
           => resp' = Refusal("list") /\ UNCHANGED <<customers, merchants>>
        /\ \A id \in IdParams :
              (Quiet("c1") /\ Delete("c1", kind, auth, id))
              => resp' = Refusal("delete") /\ UNCHANGED <<customers, merchants>>

C5_AdminOnly == [][C5_Unauthorized]_vars

-----------------------------------------------------------------------------
(* C6: an authorized delete of an existing document *)

Ids(coll) == {coll[i].id : i \in 1..Len(coll)}

Range(seq) == {seq[i] : i \in 1..Len(seq)}

\* C6: an authorized delete of the id of a document of the collection is
\* answered 200; afterwards the collection, and every list of it, holds the other
\* documents unchanged and not that one, and the other collection is unchanged.
C6_DeleteExisting ==
    \A kind \in Kinds, auth \in GoodCredentials, id \in IdParams :
        (/\ id.wellFormed /\ id.oid \in Ids(Collection(kind))
         /\ Quiet("c1")
         /\ Delete("c1", kind, auth, id))
        => /\ resp'.op = "delete" /\ resp'.status = 200
           /\ Range(After(kind)) = {d \in Range(Collection(kind)) : d.id # id.oid}
           /\ Len(After(kind)) = Len(Collection(kind)) - 1
           /\ \A data \in SortedNewestFirst(After(kind)) :
                 Range(data) = {d \in Range(Collection(kind)) : d.id # id.oid}
           /\ \A other \in Kinds \ {kind} : After(other) = Collection(other)

C6_DeleteRemovesExactlyOne == [][C6_DeleteExisting]_vars

\* C6 witness: of two customers created, the first was deleted and the second
\* is still there
C6_Witness ==
    /\ resp.op = "delete" /\ resp.status = 200
    /\ nextId = 2 /\ Ids(customers) = {2} /\ merchants = <<>>

-----------------------------------------------------------------------------
(* C7: an authorized delete of an id no document of the collection has *)

\* C7: an authorized delete of an id that no document of the collection has is
\* answered 404 and both collections stay as they are.
C7_DeleteUnknown ==
    \A kind \in Kinds, auth \in GoodCredentials, id \in IdParams :
        (/\ ~(id.wellFormed /\ id.oid \in Ids(Collection(kind)))
         /\ Quiet("c1")
         /\ Delete("c1", kind, auth, id))
        => /\ resp'.op = "delete" /\ resp'.status = 404
           /\ UNCHANGED <<customers, merchants>>

C7_UnknownIdNotFound == [][C7_DeleteUnknown]_vars

-----------------------------------------------------------------------------
(* C8: a valid customer payload with a new email *)

ValidCustomers == {b \in ValidBodies : KindOf[b] = "customer"}

\* the documents of the collection that are the payload's: its lower-cased
\* email, its sanitized name, its style and its budget
Matching(coll, data) ==
    {i \in 1..Len(coll) :
        /\ coll[i].email = LowerEmail[data]
        /\ coll[i].name = <<"J">>
        /\ coll[i].style = data.style.v
        /\ coll[i].budget = data.budget.v}

\* C8: the submit of a valid customer payload that passed the limiters and met
\* no document with its email is answered 201, and the customers then hold
\* exactly one document with that email, which has the payload's sanitized
\* values.
C8_NewCustomer ==
    \A data \in ValidCustomers :
        /\ (/\ ~Holds("customer", LowerEmail[data])
            /\ Quiet("c1") /\ Room
            /\ SubmitBegin("c1", data))
           => pending' = Append(pending, data)
        /\ \A i \in 1..Len(pending) :
              (pending[i] = data /\ SubmitCreate(i, 1))
              => /\ resp'.op = "submit" /\ resp'.status = 201
                 /\ \A list \in SortedNewestFirst(After("customer")) :
                       /\ Cardinality(WithEmail(list, LowerEmail[data])) = 1
                       /\ WithEmail(list, LowerEmail[data]) = Matching(list, data)

C8_ExactlyOneRecord == [][C8_NewCustomer]_vars

-----------------------------------------------------------------------------
(* C9: enumerated fields *)

\* the fixed closed sets, with `other` of the later servers
Styles == {"minimalist", "vintage", "streetwear", "formal", "casual", "other"}
Budgets == {"0-100", "100-250", "250-500", "500+"}
Categories == {"clothing", "accessories", "footwear", "jewelry", "other"}

\* the enumerated fields of this body that are missing or outside their sets,
\* by the error text that names them
BadEnums(data) ==
    IF Kind(data) = "customer"
    THEN {m \in {"Invalid style selection", "Invalid budget selection"} :
            \/ m = "Invalid style selection" /\ ~Includes(Styles, Get(data, "style"))
            \/ m = "Invalid budget selection" /\ ~Includes(Budgets, Get(data, "budget"))}
    ELSE {m \in {"Invalid category selection"} :
            ~Includes(Categories, Get(data, "category"))}

\* an enumerated field of a stored record: the file server stores JSON values
EnumValue(x) == IF variant = "file" THEN (IF x.t = "str" THEN x.v ELSE "") ELSE x

EnumsInside(kind) ==
    \A i \in 1..Len(After(kind)) :
        LET d == After(kind)[i] IN
        IF kind = "customer"
        THEN /\ {"style", "budget"} \subseteq DOMAIN d
             /\ EnumValue(d.style) \in Styles
             /\ EnumValue(d.budget) \in Budgets
        ELSE /\ "category" \in DOMAIN d
             /\ EnumValue(d.category) \in Categories

\* the bodies of the model with a missing or foreign enumerated field
BadEnumBodies == {b \in Bodies \cup FileBodies : ValidType(b) /\ BadEnums(b) # {}}

\* C9: a submit with a missing or foreign enumerated field is answered 400 with
\* details naming the field, and every stored record has its enumerated fields
\* inside the closed sets.
C9_Enums ==
    /\ \A data \in BadEnumBodies :
          /\ (Quiet("c1") /\ SubmitBegin("c1", data))
             => /\ resp'.op = "submit" /\ resp'.status = 400
                /\ BadEnums(data) \subseteq Range(resp'.details)
                /\ UNCHANGED pending
          /\ \A i \in 1..Len(pending) :
                (variant = "file" /\ pending[i].formData = data
                 /\ \E tick \in {0, 1} : FileSubmitWrite(i, tick))
                => /\ resp'.op = "submit" /\ resp'.status = 400
                   /\ BadEnums(data) \subseteq Range(resp'.details)
    /\ \A kind \in Kinds : EnumsInside(kind)

C9_EnumeratedFields == [][C9_Enums]_vars

-----------------------------------------------------------------------------
(* C10: documents are created by successful submits and removed by admin      *)
(* deletes only                                                             *)

\* the step creates exactly one document, in the collection of this kind
CreatesOne(kind) ==
    /\ Len(After(kind)) = Size(kind) + 1
    /\ SubSeq(After(kind), 1, Size(kind)) = Collection(kind)
    /\ \A other \in Kinds \ {kind} : After(other) = Collection(other)

\* the step is an admin delete that took one document from this collection
AdminDeletes(kind) ==
    /\ resp'.op = "delete" /\ resp'.status = 200
    /\ \E auth \in GoodCredentials, id \in IdParams : Delete("c1", kind, auth, id)

\* C10: a submit answered 201 creates exactly one document, in its collection; a
\* submit answered 400 or 409 changes no collection; a collection changes only
\* by such a creation or by an admin delete, which alone takes documents away.
C10_Lifecycle ==
    /\ \A i \in 1..Len(pending) :
          (SubmitCreate(i, 1) /\ resp'.status = 201) => CreatesOne(Kind(pending[i]))
    /\ \/ UNCHANGED <<customers, merchants>>
       \/ \A data \in Bodies :
             ~(Quiet("c1") /\ SubmitBegin("c1", data) /\ resp'.status \in {400, 409})
    /\ \A kind \in Kinds :
          After(kind) # Collection(kind) =>
              \/ /\ resp'.op = "submit" /\ resp'.status = 201
                 /\ \E i \in 1..Len(pending) :
                       /\ Kind(pending[i]) = kind
                       /\ validate(pending[i]) = <<>>
                       /\ SubmitCreate(i, 1)
                 /\ CreatesOne(kind)
              \/ /\ AdminDeletes(kind)
                 /\ Range(After(kind)) \subseteq Range(Collection(kind))

C10_CreatedBySubmitRemovedByDelete == [][C10_Lifecycle]_vars

\* C10 witness: a document was created by a submit and then deleted, and a
\* later submit was answered 409 for the document that remains
C10_Witness ==
    /\ resp.op = "submit" /\ resp.status = 409
    /\ nextId = 2 /\ Len(customers) + Len(merchants) = 1

-----------------------------------------------------------------------------
(* C11: ids are the server's and are never used twice *)

\* the id of this stored record was made by the server: an ObjectId of the
\* generator, or the clock's string and not the id of the request body
ServerMade(rec) ==
    IF variant = "file" THEN rec.id # ExtraKeys.id
    ELSE rec.id \in 1..nextId

\* C11: no stored record has a client-supplied id, and no two records of a
\* collection have the same id.
C11_ServerAssignedIds ==
    \A kind \in Kinds :
        /\ \A i \in 1..Size(kind) : ServerMade(Collection(kind)[i])
        /\ \A i, j \in 1..Size(kind) :
              i # j => Collection(kind)[i].id # Collection(kind)[j].id

-----------------------------------------------------------------------------
(* C12: the lists are complete and newest first *)

\* how many times the record occurs in the sequence
Count(seq, rec) == Cardinality({i \in 1..Len(seq) : seq[i] = rec})

\* the sequence holds the records of the collection, each as often as it does
SameRecords(seq, coll) ==
    /\ Len(seq) = Len(coll)
    /\ \A i \in 1..Len(coll) : Count(seq, coll[i]) = Count(coll, coll[i])

NewestFirst(seq) ==
    \A i, j \in 1..Len(seq) : i < j => seq[i].submittedAt >= seq[j].submittedAt

\* the step is a list request of this collection, answered 200
Lists(kind) ==
    /\ resp'.op = "list" /\ resp'.status = 200
    /\ \/ FileList(kind)
       \/ \E auth \in AuthHeaders : List("c1", kind, auth)

\* C12: a list answered 200 returns every record of the collection, ordered by
\* creation time, newest first.
C12_List ==
    \A kind \in Kinds :
        Lists(kind) => /\ SameRecords(resp'.data, Collection(kind))
                       /\ NewestFirst(resp'.data)

C12_ListNewestFirst == [][C12_List]_vars

-----------------------------------------------------------------------------
(* C13: concurrent submits of the file server lose no record *)

\* the step is the write and the success answer of a submit of the file server
FileSubmitAnswered ==
    /\ resp'.op = "submit" /\ resp'.status = 200
    /\ \E i \in 1..Len(pending), tick \in {0, 1} : FileSubmitWrite(i, tick)

\* every record the collection held is still in it after the step
KeepsRecords(kind) ==
    \A i \in 1..Size(kind) :
        Count(After(kind), Collection(kind)[i]) >= Count(Collection(kind), Collection(kind)[i])

\* C13: a submit of the file server answered with success leaves every record
\* that was in the collection in it, also when another submit to the same
\* collection read the file before this one wrote it: once both are answered,
\* the collection holds both records.
C13_Write == FileSubmitAnswered => \A kind \in Kinds : KeepsRecords(kind)

C13_NoLostUpdate == [][C13_Write]_vars

-----------------------------------------------------------------------------
(* C14: the notifier never touches the answer or the record *)

\* the step creates the record of the suspended submit i
Creates(i) == i \in 1..Len(pending) /\ ~SchemaRejects(NewDocument(pending[i])) /\ SubmitCreate(i, 1)

\* the step is the end of a sendMail call, well or badly
MailEnds == \E i \in 1..Len(mail) : MailSent(i) \/ MailFailed(i)

\* C14: with or without a transporter, the submit that created a record is
\* answered 201 with the id of that record, which is in its collection; and
\* the end of a sendMail call, success or failure, changes neither the last
\* answer nor any collection.
C14_Notifier ==
    /\ \A i \in 1..Len(pending) :
          Creates(i) =>
             /\ resp'.op = "submit" /\ resp'.status = 201
             /\ \E j \in 1..Len(After(Kind(pending[i]))) :
                   /\ resp'.id = <<After(Kind(pending[i]))[j].id>>
                   /\ After(Kind(pending[i]))[j].email = normalizedEmail(pending[i])
    /\ MailEnds => UNCHANGED <<resp, customers, merchants>>

C14_NotifierNeverAffectsSubmit == [][C14_Notifier]_vars

\* a sendMail call failed after its submit was answered 201, and the record is
\* in its collection
C14_Witness ==
    \E i \in 1..Len(mail) :
        /\ mail[i].state = "failed"
        /\ resp.status = 201 /\ resp.id = <<mail[i].id>>
        /\ HasId(Collection(mail[i].kind), mail[i].id)

-----------------------------------------------------------------------------
(* C15: only the declared fields are stored *)

\* the fields of a stored record of this kind: the declared ones, and the id
\* and the submittedAt the server sets
Declared(kind) ==
    {"id", "submittedAt"} \cup
    (IF kind = "customer" THEN {"name", "email", "style", "budget"}
     ELSE {"businessName", "contactName", "email", "category"})

\* the records of the collection after the step that were not in it before
Added(kind) ==
    {After(kind)[i] : i \in {j \in 1..Len(After(kind)) :
                               Count(Collection(kind), After(kind)[j]) = 0}}

\* C15: a record that enters a collection has no field outside the declared
\* set, and its submittedAt is the server's time at that step.
C15_Stored ==
    \A kind \in Kinds : \A rec \in Added(kind) :
        /\ DOMAIN rec \subseteq Declared(kind)
        /\ rec.submittedAt = now'

C15_DeclaredFieldsOnly == [][C15_Stored]_vars

-----------------------------------------------------------------------------
(* C16: stored emails *)

\* the records of both collections
Records == UNION {Range(Collection(kind)) : kind \in Kinds}

\* C16: the email of every stored record is lower-case and has the form the
\* email rule asks for: a non-empty local part, '@', a non-empty domain part
\* with a dot, no whitespace.
C16_StoredEmails ==
    \A rec \in Records :
        /\ rec.email = toLowerCase(rec.email)
        /\ MatchesEmail(rec.email)

-----------------------------------------------------------------------------
(* C17: stored names *)

NameFields == {"name", "businessName", "contactName"}

\* C17: every stored name, businessName and contactName is non-empty, has no
\* whitespace at either end, has no '<' or '>' and is at most 200 characters.
C17_StoredNames ==
    \A rec \in Records : \A f \in NameFields \cap DOMAIN rec :
        /\ Len(rec[f]) >= 1
        /\ Trim(rec[f]) = rec[f]
        /\ StripBrackets(rec[f]) = rec[f]
        /\ Len(rec[f]) <= MAX_LEN

-----------------------------------------------------------------------------
(* C18: storage failures *)

\* readData failed for the suspended submit i of the file server
ReadFailed(i) == "readFailed" \in DOMAIN pending[i]

\* the submit is answered with a generic 500 and no collection changes
Answered500 ==
    /\ resp' = Response("submit", 500, <<>>, NoId, <<>>)
    /\ UNCHANGED <<customers, merchants>>

\* C18: a submit during which a storage read or write failed is answered 500
\* and leaves both collections as they were; in particular the submit of the
\* file server whose read failed does not write the file.
C18_Storage ==
    \A i \in 1..Len(pending) :
        /\ (FileSubmitWriteFails(i) \/ SubmitCreateFails(i)) => Answered500
        /\ (variant = "file" /\ ReadFailed(i)
            /\ \E tick \in {0, 1} : FileSubmitWrite(i, tick)) => Answered500

C18_StorageFailure == [][C18_Storage]_vars

-----------------------------------------------------------------------------
(* C19: the origin allow-list *)

\* the step handles a request with this Origin header: a submit, a list or a
\* delete
RequestFrom(origin) ==
    \/ \E data \in Bodies \cup FileBodies :
          \/ Arrives(origin, SubmitBegin("c1", data))
          \/ Arrives(origin, FileSubmitRead(data))
    \/ \E kind \in Kinds :
          \/ Arrives(origin, FileList(kind))
          \/ \E auth \in AuthHeaders :
                \/ Arrives(origin, List("c1", kind, auth))
                \/ \E id \in IdParams : Arrives(origin, Delete("c1", kind, auth, id))

\* the Origin header names an origin outside the allow-list
Foreign(origin) == origin.t = "str" /\ origin.v \notin ALLOWED_ORIGINS

\* C19: a request with an Origin outside the allow-list is answered 403 and no
\* handler runs: nothing is created, returned or deleted; a request with a
\* listed Origin or without one is not stopped at the boundary.
C19_Boundary ==
    \A origin \in Origins :
        RequestFrom(origin) =>
            IF Foreign(origin)
            THEN /\ resp'.status = 403 /\ resp'.data = <<>>
                 /\ UNCHANGED <<customers, merchants, pending, mail>>
            ELSE ~Forbidden

C19_OriginAllowList == [][C19_Boundary]_vars

-----------------------------------------------------------------------------
(* C20: the admin login *)

\* C20: a login is answered 200 when the password is the admin secret and 401
\* when it is anything else, and it changes nothing: no collection, no
\* suspended submit, no mail, no configuration, and no header is let through
\* the admin gate afterwards that was not let through before.
C20_Login ==
    \A password \in Passwords :
        (Quiet("c1") /\ AdminLogin("c1", password)) =>
            /\ resp'.op = "login"
            /\ resp'.status = IF password = ADMIN_PASSWORD THEN 200 ELSE 401
            /\ resp'.data = <<>>
            /\ UNCHANGED <<config, customers, merchants, nextId, pending, mail>>
            /\ \A auth \in AuthHeaders : requireAdmin(auth)' = requireAdmin(auth)

C20_LoginChecksPassword == [][C20_Login]_vars

\* a login with the secret was answered 200 while a record is stored
C20_Witness ==
    /\ resp.op = "login" /\ resp.status = 200
    /\ customers # <<>>

-----------------------------------------------------------------------------
(* C21: email uniqueness is per collection *)

OtherKind(kind) == IF kind = "customer" THEN "merchant" ELSE "customer"

\* C21: a valid submit whose email no record of its own collection has goes on
\* to its create call whatever the other collection holds; the create is
\* answered 201; and no step of a submit changes the other collection.
C21_Step ==
    /\ \A data \in ValidBodies :
          (Quiet("c1") /\ ~Holds(KindOf[data], LowerEmail[data])
           /\ SubmitBegin("c1", data))
          => /\ pending' = Append(pending, data)
             /\ UNCHANGED <<customers, merchants>>
    /\ \A i \in 1..Len(pending) :
          Creates(i) => /\ resp'.status = 201
                        /\ After(OtherKind(Kind(pending[i])))
                              = Collection(OtherKind(Kind(pending[i])))

C21_UniquePerCollection == [][C21_Step]_vars

\* a customer and a merchant hold the same email, the later of the two submits
\* answered 201
C21_Witness ==
    /\ resp.op = "submit" /\ resp.status = 201
    /\ Emails(customers) \cap Emails(merchants) # {}

-----------------------------------------------------------------------------
(* C22: the loose bound covers every /api/ request *)

\* the place of the request of this step among the /api/ requests of the
\* client in its window of the general limiter
Ordinal(c) == generalHits[c] + 1

\* C22: of the /api/ requests of a client in one window, submits included, the
\* general limiter refuses none of the first 100 and every further one with
\* 429; a submit it refuses does not reach the submit limiter or the handler,
\* however few submits the client made.
C22_Step ==
    /\ Health("c1") => (resp'.status = 429 <=> Ordinal("c1") > GENERAL_MAX)
    /\ \A data \in LimiterBodies :
          SubmitBegin("c1", data) =>
             /\ generalHits'["c1"] = Ordinal("c1")
             /\ Log("c1")'[Len(Log("c1")')] = "general" <=> Ordinal("c1") > GENERAL_MAX
             /\ Ordinal("c1") > GENERAL_MAX
                  => /\ resp' = TooMany("submit")
                     /\ UNCHANGED <<submitHits, pending, customers, merchants>>

C22_LooseBoundCoversSubmit == [][C22_Step]_vars

\* a client that made fewer than 5 submits in the window has used up the loose
\* bound and its submit was answered 429
C22_Witness ==
    /\ generalHits["c1"] > GENERAL_MAX
    /\ submitHits["c1"] < SUBMIT_MAX
    /\ Log("c1") # <<>> /\ Log("c1")[Len(Log("c1"))] = "general"
    /\ resp = TooMany("submit")

-----------------------------------------------------------------------------
(* C23: counters per client, reset with the window *)

\* the limiters refuse the submit of this step of client c
Refused(c) == Log(c)'[Len(Log(c)')] # "ok"

\* C23: whether a submit of a client is refused depends on the requests of
\* that client in its current windows only: it is refused exactly when the
\* client has used up a bound in the current window, so it is accepted again
\* once the window has passed; and the request of one client and the end of
\* its window leave the counters of every other client as they are.
C23_Step ==
    \A c \in Clients :
        /\ SubmitBegin(c, Compact(BadCustomer)) =>
              /\ Refused(c) <=> (generalHits[c] >= GENERAL_MAX \/ submitHits[c] >= SUBMIT_MAX)
              /\ Refused(c) <=> resp'.status = 429
              /\ \A d \in Clients \ {c} :
                    generalHits'[d] = generalHits[d] /\ submitHits'[d] = submitHits[d]
        /\ \A limiter \in {"general", "submit"} :
              WindowReset(limiter, c) =>
                 /\ IF limiter = "general" THEN generalHits'[c] = 0 ELSE submitHits'[c] = 0
                 /\ \A d \in Clients \ {c} :
                       generalHits'[d] = generalHits[d] /\ submitHits'[d] = submitHits[d]

C23_CountersPerClient == [][C23_Step]_vars

\* client c1 has used up the strict bound and its last submit was refused;
\* after that a first submit of client c2 was accepted (and answered 400)
C23_Witness ==
    /\ submitHits["c1"] > SUBMIT_MAX
    /\ Log("c1")[Len(Log("c1"))] = "submit"
    /\ Log("c2") = <<"ok">>
    /\ resp.status = 400

-----------------------------------------------------------------------------
(* C24: the order of the stages of a submit *)

\* the body fails the type check or a rule of its validator
Invalid(data) == ~ValidType(data) \/ Len(validate(data)) > 0

\* some record of the collection of the body has the email of the body
EmailExists(data) ==
    ValidType(data) /\ normalizedEmail(data) \in Emails(Collection(Kind(data)))

\* C24: the limiters come first, then the validator, then the duplicate check,
\* then the create, then the notifier: a refused submit is answered 429 whatever
\* its body; an invalid body is answered 400 also when its email exists; only a
\* valid body is answered 409 for its email; no mail call is made before the
\* create; and a mail call is made only by the step that created a record and
\* answered 201, for that record.
C24_Step ==
    /\ \A data \in StageBodies :
          SubmitBegin("c1", data) =>
             /\ UNCHANGED mail
             /\ IF Refused("c1") THEN resp' = TooMany("submit")
                ELSE IF Invalid(data) THEN resp'.status = 400 /\ UNCHANGED pending
                ELSE IF EmailExists(data) THEN resp'.status = 409 /\ UNCHANGED pending
                ELSE pending' = Append(pending, data) /\ UNCHANGED resp
    /\ Len(mail') # Len(mail) =>
          /\ \E i \in 1..Len(pending) : Creates(i)
          /\ resp'.status = 201
          /\ mail'[Len(mail')].id = resp'.id[1]
          /\ HasId(customers' \o merchants', resp'.id[1])

C24_StageOrder == [][C24_Step]_vars

\* an invalid body whose email a stored customer has was answered 400
C24_Witness ==
    /\ resp = Response("submit", 400, <<"Invalid style selection">>, NoId, <<>>)
    /\ E_a \in Emails(customers)

-----------------------------------------------------------------------------
(* C25: what the validator reports *)

\* the rules of the fields: a name is a string that is not empty once it is
\* sanitized, an email is a string of the form local@domain.tld without white
\* space, an enumerated field is a string of its list
NameRule(x) == x.t = "str" /\ Len(sanitizeString(x)) >= 1
EmailRule(x) == x.t = "str" /\ MatchesEmail(x.v)
EnumRule(list, x) == x.t = "str" /\ x.v \in list

Message(passes, text) == IF passes THEN <<>> ELSE <<text>>

\* one message for each failing rule of the kind, in the order of the fields
Expected(data) ==
    IF Kind(data) = "customer"
    THEN Message(NameRule(Get(data, "name")), "Name is required")
         \o Message(EmailRule(Get(data, "email")), "Valid email is required")
         \o Message(EnumRule(VALID_STYLES, Get(data, "style")), "Invalid style selection")
         \o Message(EnumRule(VALID_BUDGETS, Get(data, "budget")), "Invalid budget selection")
    ELSE Message(NameRule(Get(data, "businessName")), "Business name is required")
         \o Message(NameRule(Get(data, "contactName")), "Contact name is required")
         \o Message(EmailRule(Get(data, "email")), "Valid email is required")
         \o Message(EnumRule(VALID_CATEGORIES, Get(data, "category")), "Invalid category selection")

\* C25: for a body of a valid type that the limiters let through, the validator
\* returns the messages of exactly the failing rules of the kind, in the order
\* of the fields, all of them and not only the first; the list is empty exactly
\* when every rule passes, and then the submit goes on to the duplicate check;
\* otherwise the list is the details of the 400 answer and no record, pending
\* submit or mail changes.
C25_Step ==
    \A data \in Bodies :
       (SubmitBegin("c1", data) /\ ~Refused("c1") /\ ValidType(data)) =>
          /\ validate(data) = Expected(data)
          /\ IF Expected(data) = <<>>
             THEN pending' = Append(pending, data) \/ resp'.status = 409
             ELSE /\ resp' = Response("submit", 400, Expected(data), NoId, <<>>)
                  /\ UNCHANGED <<store, pending, mail, config>>

C25_ValidatorReports == [][C25_Step]_vars

-----------------------------------------------------------------------------
(* C26: without an admin secret the gate lets nothing through *)

\* C26: when no admin secret is configured, every list, delete and login that
\* the limiter lets through is answered 401 without record data, whatever
\* header or password it carries, the absent and the empty one included, and no
\* step removes a record.
C26_Step ==
    /\ Falsy(ADMIN_PASSWORD)
    /\ \A kind \in Kinds, auth \in GateHeaders :
          /\ (Quiet("c1") /\ List("c1", kind, auth)) => resp' = Refusal("list")
          /\ \A id \in IdParams :
                (Quiet("c1") /\ Delete("c1", kind, auth, id)) => resp' = Refusal("delete")
    /\ \A password \in GatePasswords :
          (Quiet("c1") /\ AdminLogin("c1", password)) => resp' = Refusal("login")
    /\ resp'.op \in {"list", "delete", "login"} => resp'.status = 401 /\ resp'.data = <<>>
    /\ Size(customers') >= Size(customers)
    /\ Size(merchants') >= Size(merchants)

-----------------------------------------------------------------------------
(* C27: a deleted email can be submitted again *)

\* C27: an admin delete answered 200 takes the record of that id out of the
\* collection; a valid submit whose email no record of the collection holds now
\* is not answered 409 but goes on to its create, whether or not a deleted
\* record held that email; and the record a create adds has an id that no
\* record, stored or deleted, ever had: ids are given in increasing order and
\* no stored id is above the last one given.
C27_Step ==
    /\ \A id \in IdParams :
          (Quiet("c1") /\ Delete("c1", "customer", Str(<<"Bearer ", "pw">>), id)
             /\ resp'.status = 200)
          => /\ id.oid \in Ids(customers) /\ id.oid \notin Ids(customers')
             /\ Len(customers') = Len(customers) - 1
    /\ \A data \in ResubmitBodies :
          (SubmitBegin("c1", data) /\ ~Refused("c1")
             /\ E_a \notin Emails(customers))
          => pending' = Append(pending, data) /\ UNCHANGED resp
    /\ \A i \in 1..Len(pending) :
          Creates(i) =>
             LET new == customers'[Len(customers')] IN
             /\ Len(customers') = Len(customers) + 1
             /\ new.email = E_a
             /\ new.id \notin 1..nextId
             /\ resp' = Response("submit", 201, <<>>, <<new.id>>, <<>>)
    /\ nextId' >= nextId
    /\ \A id \in Ids(customers) : id <= nextId

C27_DeletedEmailAgain == [][C27_Step]_vars

\* the customer of the first id was deleted and the submit of the same email
\* was answered 201 with the second id
C27_Witness ==
    /\ resp = Response("submit", 201, <<>>, <<2>>, <<>>)
    /\ Ids(customers) = {2}
    /\ Emails(customers) = {E_a}

====
